---- MODULE Spec2Model ----
(***************************************************************************)
(* Model of AppUpdater.sync (src/src/AppUpdater.ts): the release lifecycle *)
(* of the Capacitor app updater.  One sync call is a sequence of awaited   *)
(* collaborator operations (Filesystem, Http, fetch, WebView); every one   *)
(* of them is a step that either completes or rejects.                     *)
(***************************************************************************)
EXTENDS Integers, Sequences, FiniteSets, TLC

\* ------------------------------------------------------------------ bounds
MaxCalls == 2
MaxTime == 2
MaxFaults == 1

\* ------------------------------------------------------- the data universe
ReleaseIds == {"v0", "v1", "v2"}
Staging == "next"
DirNames == ReleaseIds \cup {Staging}
Paths == {"a.js", "d/b.js"}
None == "none"

\* file.path.substring(0, file.path.lastIndexOf('/'))
ParentOf(path) == IF path = "d/b.js" THEN "d" ELSE ""

File(p, h) == [path |-> p, hash |-> h]

NoChecksum == [id |-> None, timestamp |-> 0, files |-> << >>]

\* the checksum.json bundled with the app, served on http://localhost
BundleChecksum ==
    [id |-> "v0", timestamp |-> 0,
     files |-> << File("a.js", "h1"), File("d/b.js", "h1") >>]

\* the checksum.json documents the web server may serve
ServerChecksums ==
    { [id |-> "v0", timestamp |-> 0,
       files |-> << File("a.js", "h1"), File("d/b.js", "h1") >>],
      [id |-> "v1", timestamp |-> 1,
       files |-> << File("a.js", "h1"), File("d/b.js", "h2") >>],
      [id |-> "v2", timestamp |-> 2,
       files |-> << File("a.js", "h2") >>] }

\* a malformed checksum.json: the same path twice
\* a server manifest whose id is the name of the staging directory
StagingNamedChecksum ==
    [id |-> Staging, timestamp |-> 2, files |-> << File("a.js", "h2") >>]

\* a server manifest of a new release that lists no file
EmptyChecksum == [id |-> "v2", timestamp |-> 2, files |-> << >>]

DuplicatePathsChecksum ==
    [id |-> "v2", timestamp |-> 2,
     files |-> << File("a.js", "h2"), File("a.js", "h2") >>]

\* the checkDelay arguments of sync
CheckDelays == {0, 2}

\* what Filesystem.readdir puts in `files`: plain names (filesystem 1.x, the
\* version of package.json) or FileInfo objects (the type the .ts reads)
ReaddirShapes == {"string", "FileInfo"}

NoDir == [exists |-> FALSE, dirs |-> {},
          files |-> [p \in Paths |-> None], checksum |-> NoChecksum]
NoVersion == [exists |-> FALSE, id |-> None, updated |-> 0]
NoOther == [pc |-> "off", release |-> [found |-> FALSE, id |-> None, updated |-> 0,
                                       checksum |-> NoChecksum],
            checksum |-> NoChecksum, tasks |-> {}]
NoRelease == [found |-> FALSE, id |-> None, updated |-> 0, checksum |-> NoChecksum]

Indexes(s) == 1..Len(s)
Last(s) == s[Len(s)]

VARIABLES
    fs,             \* Directory.Data/releases/<name>: the directories
    version,        \* Directory.Data/version.json: the persisted pointer
    basePath,       \* WebView server base path ("bundle" or a release id)
    persistedPath,  \* the base path persisted across sessions
    readdirShape,   \* the shape of Filesystem.readdir results
    native,         \* Capacitor.isNativePlatform()
    served,         \* the checksum.json documents the web server may serve
    faults,         \* number of collaborator operations that failed so far
    now,            \* the clock read by new Date()
    pc,             \* the position of the sync call
    checkDelay,     \* sync's argument
    activeRelease,  \* sync's local
    checksum,       \* sync's local: the server checksum
    tasks,          \* downloadTasks: one entry per file, by index
    stragglers,     \* tasks still running after Promise.all rejected
    installed,      \* deleteOldReleases' readdir result still to visit
    result,         \* what the last sync call returned
    calls,          \* number of sync calls started
    pre,            \* history: persisted state and number of failed operations
                    \*          when the call started, and the outcome of the call
                    \*          before it
    ops,            \* history: collaborator operations issued by the call
    bootstrapped,   \* history: the call ran buildReleaseFromBundle
    gateAt,         \* history: the clock value the gate compared
    fetchedAt,      \* history: times of the last two server checksum requests
                    \*          and the checkDelay of the call that made the last
    failure,        \* history: the step at which the call threw
    other           \* a second sync call running while the first is in progress

vars == << fs, version, basePath, persistedPath, readdirShape, native, served,
           faults,
           now, pc,
           checkDelay, activeRelease, checksum, tasks, stragglers, installed,
           result, calls, pre, ops, bootstrapped, gateAt, fetchedAt, failure,
           other >>

persistent == << fs, version, basePath, persistedPath >>
platform == << readdirShape, native, served >>
locals == << checkDelay, activeRelease, checksum, tasks, installed >>
history == << pre, bootstrapped, gateAt, fetchedAt >>

\* the app as installed, before its first sync
FreshInstall ==
    /\ fs = [d \in DirNames |-> NoDir]
    /\ version = NoVersion
    /\ basePath = "bundle"
    /\ persistedPath = "bundle"
    /\ readdirShape \in ReaddirShapes
    /\ native \in BOOLEAN
    /\ now = 0
    /\ pc = "idle"
    /\ checkDelay = 0
    /\ activeRelease = NoRelease
    /\ checksum = NoChecksum
    /\ tasks = << >>
    /\ stragglers = {}
    /\ installed = {}
    /\ result = None
    /\ calls = 0
    /\ pre = [fs |-> [d \in DirNames |-> NoDir], version |-> NoVersion,
              basePath |-> "bundle", persistedPath |-> "bundle",
              result |-> None, same |-> FALSE, faults |-> 0]
    /\ ops = << >>
    /\ bootstrapped = FALSE
    /\ gateAt = -1
    /\ fetchedAt = [prev |-> -1, last |-> -1, delay |-> 0]
    /\ failure = None
    /\ other = NoOther

Init == FreshInstall /\ faults = 0 /\ served = ServerChecksums

\* ----------------------------------------------------------------- helpers
Op(o, a) == [op |-> o, arg |-> a]

RECURSIVE SeqOfIndexes(_, _)
SeqOfIndexes(s, I) ==
    IF I = {} THEN << >>
    ELSE LET i == CHOOSE k \in I : \A j \in I : k <= j
         IN << s[i] >> \o SeqOfIndexes(s, I \ {i})

\* [...new Set(checksum.files.map(file => parent of file.path))]
ParentPaths(files) ==
    LET parents == [i \in Indexes(files) |-> ParentOf(files[i].path)]
    IN SeqOfIndexes(parents,
          {i \in Indexes(files) : \A j \in 1..(i - 1) : parents[j] # parents[i]})

Range(s) == {s[i] : i \in Indexes(s)}

\* the parent directory of releases/<name>/<path> is there
HasParent(dir, path) ==
    dir.exists /\ (ParentOf(path) = "" \/ ParentOf(path) \in dir.dirs)

\* a file write (Filesystem.copy, Http.downloadFile): creates or replaces
PutFile(dir, path, data) == [dir EXCEPT !.files[path] = data]

\* Filesystem.appendFile: creates the file or appends to what is there
AppendFile(dir, path, data) ==
    [dir EXCEPT !.files[path] = IF @ = None THEN data ELSE "appended"]

\* Filesystem.writeFile({path: releases/<name>/checksum.json, recursive: true})
WriteChecksum(dir, cs) == [dir EXCEPT !.exists = TRUE, !.checksum = cs]

\* a setCurrentRelease that drops the timestamp
SetCurrentReleaseNoTime(releaseName, timestamp) ==
    [exists |-> TRUE, id |-> releaseName, updated |-> 0]

\* setCurrentRelease: the content written to version.json
SetCurrentRelease(releaseName, timestamp) ==
    [exists |-> TRUE, id |-> releaseName, updated |-> timestamp]

\* a gate that compares with <= instead of <
GateClosedInclusive(release, delay, t) == t <= release.updated + delay

\* sync's gate: new Date() < lastUpdated + checkDelay
GateClosed(release, delay, t) == t < release.updated + delay

\* a sync without the check for the installed release
NeverInstalled(release, cs) == FALSE

\* sync: activeRelease.checksum.id === checksum.id
AlreadyInstalled(release, cs) == release.checksum.id = cs.id

\* the call has fetched a server checksum that names the release it runs on
SameRelease(release, cs) == cs # NoChecksum /\ cs.id = release.checksum.id

\* a sync that copies whenever the previous release has the path
TaskKindByPath(release, file) ==
    IF \E i \in Indexes(release.checksum.files) :
          release.checksum.files[i].path = file.path
    THEN "copy" ELSE "download"

\* sync: copy from the previous release on an exact path and hash match
TaskKind(release, file) ==
    IF \E i \in Indexes(release.checksum.files) :
          /\ release.checksum.files[i].path = file.path
          /\ release.checksum.files[i].hash = file.hash
    THEN "copy" ELSE "download"

\* a barrier that lets sync go on as soon as one task has resolved
AnyResolved(t) == \E i \in Indexes(t) : t[i] = "done"

\* a Promise.all that stays pending when a task has rejected
NeverRejected(t) == FALSE

\* await Promise.all(downloadTasks): rejects as soon as one task has rejected
AllRejected(t) == \E i \in Indexes(t) : t[i] = "failed"

\* await Promise.all(downloadTasks): resolves when every task has resolved
AllResolved(t) == \A i \in Indexes(t) : t[i] = "done"

\* a sync that starts only while no other call is in progress
Serialized(p) == p = "idle"

\* sync keeps no lock and no in-progress flag: a call may start whatever
\* position another call is at
MayStart(p) == TRUE

\* a sync that runs on every platform
RunsAnywhere(isNative) == TRUE

\* sync goes past `if (!Capacitor.isNativePlatform()) return false`
RunsOn(isNative) == isNative

\* a failed manifest request is issued again within the call
FetchRetried == "getServerChecksum"

\* if (!checksum) throw 'Unable to get checksum from server'
FetchFailed == "catch"

\* a sync that throws when getCurrentRelease has found no release
NoReleaseThrows == "catch"

\* where sync goes when getCurrentRelease has returned null:
\* buildReleaseFromBundle
NoReleaseFound == "bundleFetch"

\* a sync that stops once buildReleaseFromBundle has returned
StopAfterBundleRelease == "catch"

\* where sync goes on after buildReleaseFromBundle has returned the release
AfterBundleRelease == "gate"

\* a catch block that rethrows
CatchRethrows == "error"

\* what the catch block of sync returns
CatchResult == "false"

\* tasks that write into the previous release's directory
TaskTargetActive(release) == release.checksum.id

\* the directory the tasks of sync write to: `releases/next/${file.path}`
TaskTarget(release) == Staging

\* a rename that replaces a directory already at the target
CanRenameOver(f, id) == f[Staging].exists

\* Filesystem.rename resolves only when the source is there and no
\* directory is at the target; a rename of releases/next onto itself moves
\* nothing
CanRename(f, id) == f[Staging].exists /\ (id = Staging \/ ~f[id].exists)

\* deleteOldReleases: oldReleaseName.name
EntryName(shape, entry) == IF shape = "FileInfo" THEN entry ELSE "undefined"

\* deleteOldReleases: `releases/${oldReleaseName}`
EntryPath(shape, entry) == IF shape = "string" THEN entry ELSE "[object Object]"

Log(entries) == ops' = ops \o entries

\* n operations that could have completed reject instead
Fault(n) ==
    /\ faults + n <= MaxFaults
    /\ faults' = faults + n

\* an operation completes (ok) or rejects; it cannot complete when the file
\* system does not allow it (possible is false)
Try(ok, possible) ==
    /\ ok => possible
    /\ Fault(IF possible /\ ~ok THEN 1 ELSE 0)

\* the directory releases/<name>/<path> is there
DirThere(dir, path) == dir.exists /\ (path = "" \/ path \in dir.dirs)

\* a loop of createDir calls over paths, of which those in made create their
\* directory; the others reject (the directory is there, or a fault)
CreateDirs(dir, paths, made) ==
    IF made = {} THEN dir
    ELSE [dir EXCEPT !.exists = TRUE, !.dirs = @ \cup (made \ {""})]

\* a rejected await inside sync's try block
Throw(step) ==
    /\ pc' = "catch"
    /\ failure' = step

\* ------------------------------------------------------------ sync: start
\* AppUpdater.sync is called; on a non-native platform it returns false
SyncStart ==
    /\ pc = "idle"
    /\ calls < MaxCalls
    /\ calls' = calls + 1
    /\ pre' = [fs |-> fs, version |-> version,
               basePath |-> basePath, persistedPath |-> persistedPath,
               result |-> result,
               same |-> SameRelease(activeRelease, checksum),
               faults |-> faults]
    /\ ops' = << >>
    /\ bootstrapped' = FALSE
    /\ gateAt' = -1
    /\ failure' = None
    /\ activeRelease' = NoRelease
    /\ checksum' = NoChecksum
    /\ tasks' = << >>
    /\ installed' = {}
    /\ \E delay \in CheckDelays : checkDelay' = delay
    /\ IF RunsOn(native)
       THEN pc' = "getCurrentRelease" /\ result' = None
       ELSE pc' = "idle" /\ result' = "false"
    /\ UNCHANGED << persistent, platform, other, faults, now, stragglers, fetchedAt >>

\* getCurrentRelease: read version.json, then the checksum.json of the
\* release it names; any rejection yields null
GetCurrentRelease ==
    /\ pc = "getCurrentRelease"
    /\ \E readVersion \in BOOLEAN, readChecksum \in BOOLEAN :
          LET gotVersion == readVersion /\ version.exists
              gotChecksum == /\ gotVersion
                             /\ readChecksum
                             /\ fs[version.id].exists
                             /\ fs[version.id].checksum # NoChecksum
          IN /\ readVersion => version.exists
             /\ readChecksum => gotChecksum
             /\ Fault(IF version.exists /\ ~gotChecksum
                         /\ fs[version.id].exists
                         /\ fs[version.id].checksum # NoChecksum
                      THEN 1 ELSE 0)
             /\ Log(<< Op("readFile", "version.json") >>
                    \o IF gotVersion
                       THEN << Op("readFile", version.id) >> ELSE << >>)
             /\ IF gotChecksum
                THEN /\ activeRelease' =
                          [found |-> TRUE, id |-> version.id,
                           updated |-> version.updated,
                           checksum |-> fs[version.id].checksum]
                     /\ pc' = "gate"
                ELSE /\ activeRelease' = NoRelease
                     /\ pc' = NoReleaseFound
    /\ UNCHANGED << persistent, platform, other, now, checkDelay, checksum, tasks,
                    stragglers, installed, result, calls, history, failure >>

\* ------------------------------------------- buildReleaseFromBundle
\* fetch('http://localhost/checksum.json') and response.json()
BundleFetch ==
    /\ pc = "bundleFetch"
    /\ bootstrapped' = TRUE
    /\ Log(<< Op("fetch", "checksum.json") >>)
    /\ \E ok \in BOOLEAN :
          /\ Try(ok, TRUE)
          /\ pc' = IF ok THEN "bundleDirs" ELSE "bundleCatch"
    /\ UNCHANGED << persistent, platform, other, now, locals, stragglers, result,
                    calls, pre, gateAt, fetchedAt, failure >>

\* createDir('releases') and createDir(`releases/${checksum.id}/${path}`) for
\* every distinct parent path; createDir swallows a rejected mkdir
BundleDirs ==
    /\ pc = "bundleDirs"
    /\ LET id == BundleChecksum.id
           paths == ParentPaths(BundleChecksum.files)
       IN /\ \E made \in SUBSET Range(paths) :
                /\ Fault(Cardinality({q \in Range(paths) \ made :
                                        ~DirThere(fs[id], q)}))
                /\ fs' = [fs EXCEPT ![id] = CreateDirs(@, paths, made)]
          /\ Log(<< Op("mkdir", "releases") >>
                 \o [i \in Indexes(paths) |-> Op("mkdir", << id, paths[i] >>)])
    /\ pc' = "bundleTasks"
    /\ UNCHANGED << version, basePath, persistedPath, platform, other, now, locals,
                    stragglers, result, calls, history, failure >>

\* downloadTasks.push(downloadFileFromAppBundle(...)) for every file
BundleTasks ==
    /\ pc = "bundleTasks"
    /\ tasks' = [i \in Indexes(BundleChecksum.files) |-> "pending"]
    /\ Log([i \in Indexes(BundleChecksum.files) |->
              Op("appendFile", << BundleChecksum.id, BundleChecksum.files[i].path >>)])
    /\ pc' = "bundleAwait"
    /\ UNCHANGED << persistent, platform, other, faults, now, checkDelay, activeRelease,
                    checksum, stragglers, installed, result, calls, history,
                    failure >>

\* downloadFileFromAppBundle: fetch the file and appendFile it; a failure is
\* caught and the task resolves to false
BundleTaskDone ==
    /\ pc = "bundleAwait"
    /\ \E i \in Indexes(tasks) :
          /\ tasks[i] = "pending"
          /\ LET id == BundleChecksum.id
                 file == BundleChecksum.files[i]
             IN \E ok \in BOOLEAN :
                   /\ Try(ok, HasParent(fs[id], file.path))
                   /\ fs' = IF ok
                            THEN [fs EXCEPT ![id] =
                                    AppendFile(@, file.path, file.hash)]
                            ELSE fs
                   /\ tasks' = [tasks EXCEPT ![i] = IF ok THEN "done" ELSE "false"]
    /\ UNCHANGED << version, basePath, persistedPath, platform, other, now, pc,
                    checkDelay, activeRelease, checksum, stragglers, installed,
                    result, calls, history, ops, failure >>

\* await Promise.all(downloadTasks), then write the release's checksum.json
BundleWriteChecksum ==
    /\ pc = "bundleAwait"
    /\ \A i \in Indexes(tasks) : tasks[i] # "pending"
    /\ tasks' = << >>
    /\ Log(<< Op("writeFile", << BundleChecksum.id, "checksum.json" >>) >>)
    /\ \E ok \in BOOLEAN :
          /\ Try(ok, TRUE)
          /\ IF ok
             THEN /\ fs' = [fs EXCEPT ![BundleChecksum.id] =
                              WriteChecksum(@, BundleChecksum)]
                  /\ pc' = "bundleSetCurrent"
             ELSE /\ fs' = fs
                  /\ pc' = "bundleCatch"
    /\ UNCHANGED << version, basePath, persistedPath, platform, other, now,
                    checkDelay, activeRelease, checksum, stragglers, installed,
                    result, calls, history, failure >>

\* setCurrentRelease(releaseID, new Date(checksum.timestamp)) and return
BundleSetCurrent ==
    /\ pc = "bundleSetCurrent"
    /\ Log(<< Op("writeFile", "version.json") >>)
    /\ \E ok \in BOOLEAN :
          /\ Try(ok, TRUE)
          /\ IF ok
             THEN /\ version' = SetCurrentRelease(BundleChecksum.id,
                                                  BundleChecksum.timestamp)
                  /\ activeRelease' =
                        [found |-> TRUE, id |-> BundleChecksum.id,
                         updated |-> BundleChecksum.timestamp,
                         checksum |-> BundleChecksum]
                  /\ pc' = AfterBundleRelease
             ELSE /\ version' = version
                  /\ activeRelease' = activeRelease
                  /\ pc' = "bundleCatch"
    /\ UNCHANGED << fs, basePath, persistedPath, platform, other, now, checkDelay,
                    checksum, tasks, stragglers, installed, result, calls,
                    history, failure >>

\* the catch block: removeDir('releases') (a rejected rmdir is swallowed),
\* then throw to sync
BundleCatch ==
    /\ pc = "bundleCatch"
    /\ Log(<< Op("rmdir", "releases") >>)
    /\ \E ok \in BOOLEAN :
          /\ Try(ok, \E d \in DirNames : fs[d].exists)
          /\ fs' = IF ok THEN [d \in DirNames |-> NoDir] ELSE fs
    /\ tasks' = << >>
    /\ Throw("bundle")
    /\ UNCHANGED << version, basePath, persistedPath, platform, other, now,
                    checkDelay, activeRelease, checksum, stragglers, installed,
                    result, calls, history >>

\* ------------------------------------------------------- sync: the update
\* the check delay: throw unless checkDelay has elapsed since lastUpdated
Gate ==
    /\ pc = "gate"
    /\ gateAt' = now
    /\ IF GateClosed(activeRelease, checkDelay, now)
       THEN Throw("gate")
       ELSE pc' = "getServerChecksum" /\ failure' = failure
    /\ UNCHANGED << persistent, platform, other, faults, now, locals, stragglers, result,
                    calls, pre, ops, bootstrapped, fetchedAt >>

\* getServerChecksum(webServerURL + '/checksum.json'): null on failure, and
\* the comparison with the installed release
GetServerChecksum ==
    /\ pc = "getServerChecksum"
    /\ Log(<< Op("request", "checksum.json") >>)
    /\ fetchedAt' = [prev |-> fetchedAt.last, last |-> now, delay |-> checkDelay]
    /\ \/ /\ Fault(1)
          /\ checksum' = NoChecksum
          /\ pc' = FetchFailed
          /\ failure' = "getServerChecksum"
       \/ \E cs \in served :
             /\ Fault(0)
             /\ checksum' = cs
             /\ pc' = IF AlreadyInstalled(activeRelease, cs)
                      THEN "alreadyInstalled" ELSE "prepare"
             /\ failure' = failure
    /\ UNCHANGED << persistent, platform, other, now, checkDelay, activeRelease,
                    tasks, stragglers, installed, result, calls, pre,
                    bootstrapped, gateAt >>

\* await setCurrentRelease(checksum.id, new Date()), then throw
AlreadyInstalledReset ==
    /\ pc = "alreadyInstalled"
    /\ Log(<< Op("writeFile", "version.json") >>)
    /\ \E ok \in BOOLEAN :
          /\ Try(ok, TRUE)
          /\ version' = IF ok THEN SetCurrentRelease(checksum.id, now) ELSE version
          /\ Throw(IF ok THEN "alreadyInstalled" ELSE "resetCheck")
    /\ UNCHANGED << fs, basePath, persistedPath, platform, other, now, locals,
                    stragglers, result, calls, history >>

\* createDir('releases'); removeDir('releases/next'): both swallow a rejection
PrepareStaging ==
    /\ pc = "prepare"
    /\ Log(<< Op("mkdir", "releases"), Op("rmdir", Staging) >>)
    /\ \E ok \in BOOLEAN :
          /\ Try(ok, fs[Staging].exists)
          /\ fs' = IF ok THEN [fs EXCEPT ![Staging] = NoDir] ELSE fs
    /\ pc' = "scaffold"
    /\ UNCHANGED << version, basePath, persistedPath, platform, other, now, locals,
                    stragglers, result, calls, history, failure >>

\* createDir(`releases/next/${path}`) for every distinct parent path
ScaffoldStaging ==
    /\ pc = "scaffold"
    /\ LET paths == ParentPaths(checksum.files)
       IN /\ \E made \in SUBSET Range(paths) :
                /\ Fault(Cardinality({q \in Range(paths) \ made :
                                        ~DirThere(fs[Staging], q)}))
                /\ fs' = [fs EXCEPT ![Staging] = CreateDirs(@, paths, made)]
          /\ Log([i \in Indexes(paths) |-> Op("mkdir", << Staging, paths[i] >>)])
    /\ pc' = "download"
    /\ UNCHANGED << version, basePath, persistedPath, platform, other, now, locals,
                    stragglers, result, calls, history, failure >>

\* the loop that pushes one copyFromPreviousRelease or
\* downloadFileFromWebServer task per file of the server checksum
StartDownloads ==
    /\ pc = "download"
    /\ tasks' = [i \in Indexes(checksum.files) |-> "pending"]
    /\ Log([i \in Indexes(checksum.files) |->
              Op(TaskKind(activeRelease, checksum.files[i]),
                 checksum.files[i].path)])
    /\ pc' = "awaitDownloads"
    /\ UNCHANGED << persistent, platform, other, faults, now, checkDelay, activeRelease,
                    checksum, stragglers, installed, result, calls, history,
                    failure >>

\* what a task writes to releases/next when it completes, None if it cannot
TaskData(kind, from, to, file) ==
    IF ~HasParent(fs[to], file.path) THEN None
    ELSE IF kind = "download" THEN file.hash
    ELSE IF fs[from].exists THEN fs[from].files[file.path]
    ELSE None

\* one Filesystem.copy or Http.downloadFile settles
DownloadDone ==
    /\ pc = "awaitDownloads"
    /\ \E i \in Indexes(tasks) :
          /\ tasks[i] = "pending"
          /\ LET file == checksum.files[i]
                 data == TaskData(TaskKind(activeRelease, file),
                                  activeRelease.checksum.id,
                                  TaskTarget(activeRelease), file)
             IN \E ok \in BOOLEAN :
                   /\ Try(ok, data # None)
                   /\ fs' = IF ok
                            THEN [fs EXCEPT ![TaskTarget(activeRelease)] =
                                    PutFile(@, file.path, data)]
                            ELSE fs
                   /\ tasks' = [tasks EXCEPT ![i] = IF ok THEN "done" ELSE "failed"]
    /\ UNCHANGED << version, basePath, persistedPath, platform, other, now, pc,
                    checkDelay, activeRelease, checksum, stragglers, installed,
                    result, calls, history, ops, failure >>

\* await Promise.all(downloadTasks) rejects: the tasks not yet settled go on
AwaitDownloadsRejected ==
    /\ pc = "awaitDownloads"
    /\ AllRejected(tasks)
    /\ stragglers' = stragglers \cup
          { [kind |-> TaskKind(activeRelease, checksum.files[i]),
             from |-> activeRelease.checksum.id,
             to |-> TaskTarget(activeRelease),
             file |-> checksum.files[i]] :
            i \in {j \in Indexes(tasks) : tasks[j] = "pending"} }
    /\ tasks' = << >>
    /\ Throw("downloadTasks")
    /\ UNCHANGED << persistent, platform, other, faults, now, checkDelay, activeRelease,
                    checksum, installed, result, calls, history, ops >>

\* a task of an abandoned batch settles
StragglerDone ==
    /\ \E t \in stragglers :
          /\ stragglers' = stragglers \ {t}
          /\ LET data == TaskData(t.kind, t.from, t.to, t.file)
             IN \E ok \in BOOLEAN :
                   /\ Try(ok, data # None)
                   /\ fs' = IF ok
                            THEN [fs EXCEPT ![t.to] = PutFile(@, t.file.path, data)]
                            ELSE fs
    /\ UNCHANGED << version, basePath, persistedPath, platform, other, now, pc,
                    locals, result, calls, history, ops, failure >>

\* await Promise.all(downloadTasks) resolves, then
\* Filesystem.writeFile('releases/next/checksum.json')
SaveChecksum ==
    /\ pc = "awaitDownloads"
    /\ ~AllRejected(tasks)
    /\ AllResolved(tasks)
    /\ tasks' = << >>
    /\ Log(<< Op("writeFile", << Staging, "checksum.json" >>) >>)
    /\ \E ok \in BOOLEAN :
          /\ Try(ok, TRUE)
          /\ IF ok
             THEN /\ fs' = [fs EXCEPT ![Staging] = WriteChecksum(@, checksum)]
                  /\ pc' = "rename"
                  /\ failure' = failure
             ELSE /\ fs' = fs
                  /\ Throw("writeFile")
    /\ UNCHANGED << version, basePath, persistedPath, platform, other, now,
                    checkDelay, activeRelease, checksum, stragglers, installed,
                    result, calls, history >>

\* Filesystem.rename({from: 'releases/next', to: `releases/${checksum.id}`})
InstallRelease ==
    /\ pc = "rename"
    /\ Log(<< Op("rename", checksum.id) >>)
    /\ \E ok \in BOOLEAN :
          /\ Try(ok, CanRename(fs, checksum.id))
          /\ IF ok
             THEN /\ fs' = IF checksum.id = Staging THEN fs
                           ELSE [fs EXCEPT ![checksum.id] = fs[Staging],
                                           ![Staging] = NoDir]
                  /\ pc' = "readdir"
                  /\ failure' = failure
             ELSE /\ fs' = fs
                  /\ Throw("rename")
    /\ UNCHANGED << version, basePath, persistedPath, platform, other, now, locals,
                    stragglers, result, calls, history >>

\* ------------------------------------------------------ deleteOldReleases
\* Filesystem.readdir({path: 'releases'})
ListReleases ==
    /\ pc = "readdir"
    /\ Log(<< Op("readdir", "releases") >>)
    /\ \E ok \in BOOLEAN :
          /\ Try(ok, TRUE)
          /\ IF ok
             THEN /\ installed' = {d \in DirNames : fs[d].exists}
                  /\ pc' = "deleteOldReleases"
                  /\ failure' = failure
             ELSE /\ installed' = installed
                  /\ Throw("readdir")
    /\ UNCHANGED << persistent, platform, other, now, checkDelay, activeRelease,
                    checksum, tasks, stragglers, result, calls, history >>

\* one iteration of the loop over installedReleases: rmdir every entry
\* whose name is not the active release's; a rejected rmdir is not caught
DeleteOldRelease ==
    /\ pc = "deleteOldReleases"
    /\ \E entry \in installed :
          /\ installed' = installed \ {entry}
          /\ IF EntryName(readdirShape, entry) # checksum.id
             THEN LET path == EntryPath(readdirShape, entry)
                  IN /\ Log(<< Op("rmdir", path) >>)
                     /\ \E ok \in BOOLEAN :
                           /\ Try(ok, path \in DirNames /\ fs[path].exists)
                           /\ IF ok
                              THEN /\ fs' = [fs EXCEPT ![path] = NoDir]
                                   /\ pc' = pc
                                   /\ failure' = failure
                              ELSE /\ fs' = fs
                                   /\ Throw("rmdir")
             ELSE UNCHANGED << fs, pc, failure, ops, faults >>
    /\ UNCHANGED << version, basePath, persistedPath, platform, other, now,
                    checkDelay, activeRelease, checksum, tasks, stragglers,
                    result, calls, history >>

\* ---------------------------------------------------------- activateRelease
\* the loop is over; Filesystem.getUri({path: `releases/${releaseName}`})
GetReleaseUri ==
    /\ pc = "deleteOldReleases"
    /\ installed = {}
    /\ Log(<< Op("getUri", checksum.id) >>)
    /\ \E ok \in BOOLEAN :
          /\ Try(ok, TRUE)
          /\ IF ok THEN pc' = "setCurrentRelease" /\ failure' = failure
                   ELSE Throw("getUri")
    /\ UNCHANGED << persistent, platform, other, now, locals, stragglers, result,
                    calls, history >>

\* await setCurrentRelease(releaseName, new Date())
ActivateSetCurrent ==
    /\ pc = "setCurrentRelease"
    /\ Log(<< Op("writeFile", "version.json") >>)
    /\ \E ok \in BOOLEAN :
          /\ Try(ok, TRUE)
          /\ IF ok
             THEN /\ version' = SetCurrentRelease(checksum.id, now)
                  /\ pc' = "setServerBasePath"
                  /\ failure' = failure
             ELSE /\ version' = version
                  /\ Throw("setCurrentRelease")
    /\ UNCHANGED << fs, basePath, persistedPath, platform, other, now, locals,
                    stragglers, result, calls, history >>

\* await WebView.setServerBasePath({path: releasePath.uri...})
SetServerBasePath ==
    /\ pc = "setServerBasePath"
    /\ Log(<< Op("setServerBasePath", checksum.id) >>)
    /\ \E ok \in BOOLEAN :
          /\ Try(ok, TRUE)
          /\ IF ok
             THEN /\ basePath' = checksum.id
                  /\ pc' = "persistServerBasePath"
                  /\ failure' = failure
             ELSE /\ basePath' = basePath
                  /\ Throw("setServerBasePath")
    /\ UNCHANGED << fs, version, persistedPath, platform, other, now, locals,
                    stragglers, result, calls, history >>

\* await WebView.persistServerBasePath(), then sync returns true
PersistServerBasePath ==
    /\ pc = "persistServerBasePath"
    /\ Log(<< Op("persistServerBasePath", basePath) >>)
    /\ \E ok \in BOOLEAN :
          /\ Try(ok, TRUE)
          /\ IF ok
             THEN /\ persistedPath' = basePath
                  /\ pc' = "idle"
                  /\ result' = "true"
                  /\ failure' = failure
             ELSE /\ persistedPath' = persistedPath
                  /\ result' = result
                  /\ Throw("persistServerBasePath")
    /\ UNCHANGED << fs, version, basePath, platform, other, now, locals,
                    stragglers, calls, history >>

\* sync's catch block: log and report that the app did not update
SyncCatch ==
    /\ pc = "catch"
    /\ pc' = "idle"
    /\ result' = CatchResult
    /\ UNCHANGED << persistent, platform, other, faults, now, locals, stragglers, calls,
                    history, ops, failure >>

\* ---------------------------------------------------------- environment
\* the clock advances; its unit is that of checkDelay (an hour by default),
\* and a call, whose requests time out after 10 s, runs within one unit
Tick ==
    /\ pc = "idle"
    /\ now < MaxTime
    /\ now' = now + 1
    /\ UNCHANGED << persistent, platform, other, faults, pc, locals, stragglers, result,
                    calls, history, ops, failure >>

Next ==
    \/ SyncStart
    \/ GetCurrentRelease
    \/ BundleFetch
    \/ BundleDirs
    \/ BundleTasks
    \/ BundleTaskDone
    \/ BundleWriteChecksum
    \/ BundleSetCurrent
    \/ BundleCatch
    \/ Gate
    \/ GetServerChecksum
    \/ AlreadyInstalledReset
    \/ PrepareStaging
    \/ ScaffoldStaging
    \/ StartDownloads
    \/ DownloadDone
    \/ AwaitDownloadsRejected
    \/ StragglerDone
    \/ SaveChecksum
    \/ InstallRelease
    \/ ListReleases
    \/ DeleteOldRelease
    \/ GetReleaseUri
    \/ ActivateSetCurrent
    \/ SetServerBasePath
    \/ PersistServerBasePath
    \/ SyncCatch
    \/ Tick

Spec == Init /\ [][Next]_vars

\* the steps of a sync call in progress: each is the completion or the failure
\* of the operation the call awaits
Step ==
    \/ GetCurrentRelease
    \/ BundleFetch
    \/ BundleDirs
    \/ BundleTasks
    \/ BundleTaskDone
    \/ BundleWriteChecksum
    \/ BundleSetCurrent
    \/ BundleCatch
    \/ Gate
    \/ GetServerChecksum
    \/ AlreadyInstalledReset
    \/ PrepareStaging
    \/ ScaffoldStaging
    \/ StartDownloads
    \/ DownloadDone
    \/ AwaitDownloadsRejected
    \/ SaveChecksum
    \/ InstallRelease
    \/ ListReleases
    \/ DeleteOldRelease
    \/ GetReleaseUri
    \/ ActivateSetCurrent
    \/ SetServerBasePath
    \/ PersistServerBasePath
    \/ SyncCatch

\* every operation a call awaits eventually completes or fails
SpecFair == Init /\ [][Next]_vars /\ WF_vars(Step)

\* ---------------------------------------------- an overlapping sync call
Dirs(f) == {d \in DirNames : f[d].exists}

\* a release directory is committed once it holds its checksum.json
Committed(f, d) == f[d].exists /\ f[d].checksum # NoChecksum

\* the state of the first call
call == << faults, now, pc, locals, stragglers, result, calls, history, ops,
          failure >>

\* the first call is between createDir('releases') and the rename
Assembling ==
    pc \in {"prepare", "scaffold", "download", "awaitDownloads", "rename"}

\* the release a call reads from version.json and its checksum.json
CurrentRelease ==
    [found |-> TRUE, id |-> version.id, updated |-> version.updated,
     checksum |-> fs[version.id].checksum]

\* a second sync(checkDelay = 0) is called while the first assembles the
\* staging directory: it reads the pointer, passes the gate and receives a
\* server checksum other than the installed release's
OtherStart ==
    /\ other.pc = "off"
    /\ MayStart(pc)
    /\ Assembling
    /\ stragglers = {}
    /\ version.exists
    /\ Committed(fs, version.id)
    /\ ~GateClosed(CurrentRelease, 0, now)
    /\ \E cs \in served :
          /\ ~AlreadyInstalled(CurrentRelease, cs)
          /\ other' = [pc |-> "prepare", release |-> CurrentRelease,
                       checksum |-> cs, tasks |-> {}]
    /\ UNCHANGED << persistent, platform, call >>

\* the second call: createDir('releases'); removeDir('releases/next')
OtherPrepare ==
    /\ other.pc = "prepare"
    /\ fs' = [fs EXCEPT ![Staging] = NoDir]
    /\ other' = [other EXCEPT !.pc = "scaffold"]
    /\ UNCHANGED << version, basePath, persistedPath, platform, call >>

\* the second call: createDir for every parent path, then the loop that
\* pushes one task per file
OtherScaffold ==
    /\ other.pc = "scaffold"
    /\ LET paths == ParentPaths(other.checksum.files)
       IN fs' = [fs EXCEPT ![Staging] = CreateDirs(@, paths, Range(paths))]
    /\ other' = [other EXCEPT !.pc = "download",
                              !.tasks = Indexes(other.checksum.files)]
    /\ UNCHANGED << version, basePath, persistedPath, platform, call >>

\* the second call: one of its copies or downloads settles; a task that
\* cannot complete rejects Promise.all and the call returns false
OtherTaskDone ==
    /\ other.pc = "download"
    /\ \E i \in other.tasks :
          LET file == other.checksum.files[i]
              data == TaskData(TaskKind(other.release, file),
                               other.release.checksum.id,
                               TaskTarget(other.release), file)
          IN IF data # None
             THEN /\ fs' = [fs EXCEPT ![TaskTarget(other.release)] =
                               PutFile(@, file.path, data)]
                  /\ other' = [other EXCEPT !.tasks = @ \ {i}]
             ELSE /\ fs' = fs
                  /\ other' = [other EXCEPT !.pc = "done", !.tasks = {}]
    /\ UNCHANGED << version, basePath, persistedPath, platform, call >>

\* the second call: Promise.all resolves, writeFile releases/next/checksum.json
OtherSaveChecksum ==
    /\ other.pc = "download"
    /\ other.tasks = {}
    /\ fs' = [fs EXCEPT ![Staging] = WriteChecksum(@, other.checksum)]
    /\ other' = [other EXCEPT !.pc = "rename"]
    /\ UNCHANGED << version, basePath, persistedPath, platform, call >>

\* the second call: Filesystem.rename of releases/next
OtherInstall ==
    /\ other.pc = "rename"
    /\ IF CanRename(fs, other.checksum.id)
       THEN /\ fs' = IF other.checksum.id = Staging THEN fs
                     ELSE [fs EXCEPT ![other.checksum.id] = fs[Staging],
                                     ![Staging] = NoDir]
            /\ other' = [other EXCEPT !.pc = "deleteOldReleases"]
       ELSE /\ fs' = fs
            /\ other' = [other EXCEPT !.pc = "done"]
    /\ UNCHANGED << version, basePath, persistedPath, platform, call >>

\* the second call: deleteOldReleases(checksum.id), the whole loop
OtherDeleteOldReleases ==
    /\ other.pc = "deleteOldReleases"
    /\ LET old == {d \in Dirs(fs) :
                     EntryName(readdirShape, d) # other.checksum.id}
       IN IF old = {}
          THEN /\ fs' = fs
               /\ other' = [other EXCEPT !.pc = "activate"]
          ELSE IF \A d \in old : EntryPath(readdirShape, d) \in DirNames
          THEN /\ fs' = [d \in DirNames |-> IF d \in old THEN NoDir ELSE fs[d]]
               /\ other' = [other EXCEPT !.pc = "activate"]
          ELSE /\ fs' = fs
               /\ other' = [other EXCEPT !.pc = "done"]
    /\ UNCHANGED << version, basePath, persistedPath, platform, call >>

\* the second call: activateRelease(checksum.id) and return true
OtherActivate ==
    /\ other.pc = "activate"
    /\ version' = SetCurrentRelease(other.checksum.id, now)
    /\ basePath' = other.checksum.id
    /\ persistedPath' = other.checksum.id
    /\ other' = [other EXCEPT !.pc = "done"]
    /\ UNCHANGED << fs, platform, call >>

\* in this specification an operation of the first call fails only when it
\* cannot complete, and the session is followed for its first call and the
\* call that overlaps it
InitOverlap ==
    /\ FreshInstall
    /\ faults = MaxFaults
    /\ served = ServerChecksums

\* the first call of the session
FirstCall == calls = 0 /\ SyncStart

NextOverlap ==
    \/ FirstCall
    \/ GetCurrentRelease
    \/ BundleFetch
    \/ BundleDirs
    \/ BundleTasks
    \/ BundleTaskDone
    \/ BundleWriteChecksum
    \/ BundleSetCurrent
    \/ Gate
    \/ GetServerChecksum
    \/ AlreadyInstalledReset
    \/ PrepareStaging
    \/ ScaffoldStaging
    \/ StartDownloads
    \/ DownloadDone
    \/ AwaitDownloadsRejected
    \/ StragglerDone
    \/ SaveChecksum
    \/ InstallRelease
    \/ ListReleases
    \/ DeleteOldRelease
    \/ GetReleaseUri
    \/ ActivateSetCurrent
    \/ SetServerBasePath
    \/ PersistServerBasePath
    \/ SyncCatch
    \/ Tick
    \/ OtherStart
    \/ OtherPrepare
    \/ OtherScaffold
    \/ OtherTaskDone
    \/ OtherSaveChecksum
    \/ OtherInstall
    \/ OtherDeleteOldReleases
    \/ OtherActivate

\* sync may be called again while a call is in progress
SpecOverlap == InitOverlap /\ [][NextOverlap]_vars

\* the server's second release is one without files
InitEmpty ==
    /\ FreshInstall
    /\ faults = 0
    /\ served = {cs \in ServerChecksums : cs.id # EmptyChecksum.id}
                   \cup {EmptyChecksum}
SpecEmpty == InitEmpty /\ [][Next]_vars

\* ------------------------------------------- after an aborted attempt
\* the persisted state a first sync call leaves when, having built the release
\* from the bundle, it went on to the server's second release, downloaded
\* d/b.js into releases/next and had the copy of a.js rejected
AbortedFs ==
    [d \in DirNames |->
        IF d = BundleChecksum.id
        THEN [exists |-> TRUE, dirs |-> {"d"},
              files |-> [p \in Paths |-> "h1"], checksum |-> BundleChecksum]
        ELSE IF d = Staging
        THEN [exists |-> TRUE, dirs |-> {"d"},
              files |-> [p \in Paths |-> IF p = "d/b.js" THEN "h2" ELSE None],
              checksum |-> NoChecksum]
        ELSE NoDir]

AbortedVersion == SetCurrentRelease(BundleChecksum.id, BundleChecksum.timestamp)

\* the app is started on a fresh install, or on the state an aborted attempt
\* of an earlier session left
InitAborted ==
    \/ Init
    \/ /\ fs = AbortedFs
       /\ version = AbortedVersion
       /\ basePath = "bundle"
       /\ persistedPath = "bundle"
       /\ readdirShape \in ReaddirShapes
       /\ native \in BOOLEAN
       /\ served = ServerChecksums
       /\ faults = 0
       /\ now = 0
       /\ pc = "idle"
       /\ checkDelay = 0
       /\ activeRelease = NoRelease
       /\ checksum = NoChecksum
       /\ tasks = << >>
       /\ stragglers = {}
       /\ installed = {}
       /\ result = None
       /\ calls = 0
       /\ pre = [fs |-> AbortedFs, version |-> AbortedVersion,
                 basePath |-> "bundle", persistedPath |-> "bundle",
                 result |-> None, same |-> FALSE, faults |-> 0]
       /\ ops = << >>
       /\ bootstrapped = FALSE
       /\ gateAt = -1
       /\ fetchedAt = [prev |-> -1, last |-> -1, delay |-> 0]
       /\ failure = None
       /\ other = NoOther

SpecAborted == InitAborted /\ [][Next]_vars

\* -------------------------------------------- a malformed server document
\* the web server may also serve the checksum that lists a path twice
InitMalformed ==
    /\ FreshInstall
    /\ faults = 0
    /\ served = ServerChecksums \cup {DuplicatePathsChecksum}

SpecMalformed == InitMalformed /\ [][Next]_vars

\* the server may also serve a manifest whose id does not name a release
\* directory of its own
InitUnsafeId ==
    /\ FreshInstall
    /\ faults = 0
    /\ served = ServerChecksums \cup {StagingNamedChecksum}
SpecUnsafeId == InitUnsafeId /\ [][Next]_vars

\* ------------------------------------------------------------ type check
TypeOK ==
    /\ pc \in {"idle", "getCurrentRelease", "bundleFetch", "bundleDirs",
               "bundleTasks", "bundleAwait", "bundleSetCurrent", "bundleCatch",
               "gate", "getServerChecksum", "alreadyInstalled", "prepare",
               "scaffold", "download", "awaitDownloads", "rename", "readdir",
               "deleteOldReleases", "setCurrentRelease", "setServerBasePath",
               "persistServerBasePath", "catch"}
    /\ result \in {None, "true", "false", "error"}
    /\ now \in 0..MaxTime
    /\ calls \in 0..MaxCalls
    /\ version.exists => version.id \in ReleaseIds
    /\ basePath \in ReleaseIds \cup {"bundle"}

\* ------------------------------------------------------------ properties
Returned == pc = "idle" /\ calls > 0
Issued(o) == \E i \in Indexes(ops) : ops[i].op = o
Requested == \E i \in Indexes(ops) : ops[i] = Op("request", "checksum.json")
Installed == {d \in DirNames : fs[d].exists}
\* the call got its active release from getCurrentRelease
Loaded == activeRelease.found /\ ~bootstrapped
ReleasesAsBefore == \A d \in ReleaseIds : fs[d] = pre.fs[d]
WebViewAsBefore == basePath = pre.basePath /\ persistedPath = pre.persistedPath

\* C1: every sync call ends by returning a boolean, whichever collaborator
\* operations rejected during it; no error reaches the caller.
C1_SyncReturnsBoolean ==
    /\ result # "error"
    /\ Returned => result \in {"true", "false"}
    /\ (Returned /\ failure # None) => result = "false"

\* a call in which a WebView call rejected after the release was committed
\* has returned false
C1_Witness ==
    /\ Returned
    /\ result = "false"
    /\ failure = "persistServerBasePath"
    /\ faults = MaxFaults

\* C2: when a sync call returns false, the release directory the pointer
\* named before the call is still there with the same files and manifest,
\* and the pointer names the same release.
C2_FailedAttemptKeepsRelease ==
    (/\ Returned
     /\ result = "false"
     /\ pre.version.exists
     /\ pre.fs[pre.version.id].exists)
    => /\ fs[pre.version.id] = pre.fs[pre.version.id]
       /\ version.exists
       /\ version.id = pre.version.id

\* C3: sync returns true exactly when the call committed the new release,
\* pointed and persisted the WebView at it and wrote the pointer with its
\* id; when a call that loaded its release from the pointer returns false,
\* the pointer's id and the WebView base path are those from before the call.
C3_TrueIffActivated ==
    (Returned /\ Loaded)
    => /\ result = "true" <=> (/\ Issued("readdir")
                               /\ basePath = checksum.id
                               /\ persistedPath = checksum.id
                               /\ version.id = checksum.id)
       /\ result = "false" => (/\ version.id = pre.version.id
                               /\ basePath = pre.basePath)

\* C4 (as stated): when a copy or download of the batch rejects, sync returns
\* false and the pointer and every release directory are as before the call.
C4_BatchFailureChangesNothing ==
    (Returned /\ failure = "downloadTasks")
    => /\ result = "false"
       /\ version = pre.version
       /\ ReleasesAsBefore

\* C4 (amended): when a copy or download of the batch rejects, sync returns
\* false and the batch has written to releases/next only.  In a call that
\* loaded its active release from the pointer, the pointer (id and time) and
\* every release directory, the active one included, are as before the call.
\* In a call that first built the release from the bundle, the pointer and
\* the bundle release are those buildReleaseFromBundle left, and every other
\* release directory is as before the call.  The WebView is as before.
C4_BatchFailureKeepsActiveRelease ==
    failure = "downloadTasks"
    => /\ Returned => result = "false"
       /\ WebViewAsBefore
       /\ Loaded =>
            /\ version = pre.version
            /\ ReleasesAsBefore
            /\ fs[activeRelease.id] = pre.fs[pre.version.id]
       /\ bootstrapped =>
            LET id == BundleChecksum.id IN
            /\ version = SetCurrentRelease(id, BundleChecksum.timestamp)
            /\ \A d \in ReleaseIds \ {id} : fs[d] = pre.fs[d]
            /\ fs[id].checksum = BundleChecksum
            /\ \A i \in Indexes(BundleChecksum.files) :
                  LET file == BundleChecksum.files[i] IN
                  fs[id].files[file.path] \in
                     {pre.fs[id].files[file.path],
                      AppendFile(pre.fs[id], file.path, file.hash).files[file.path]}

\* a batch of a loaded release failed after one task wrote into releases/next
C4_Witness ==
    /\ Returned
    /\ failure = "downloadTasks"
    /\ Loaded
    /\ fs[Staging].exists
    /\ \E q \in Paths : fs[Staging].files[q] # None

\* C5: whenever no sync call is executing and a pointer is persisted, the
\* directory of the release it names exists and holds that release's
\* manifest (stated here for the runs in which no operation has failed).
C5_PointerNamesInstalledRelease ==
    (pc = "idle" /\ version.exists /\ faults = 0)
    => /\ fs[version.id].exists
       /\ fs[version.id].checksum.id = version.id

\* C6: after a sync call that committed a release over a loaded one and
\* returned true, the releases directory holds exactly one entry, the new
\* release (stated here for the runs in which no operation has failed).
C6_OnlyNewReleaseRemains ==
    (Returned /\ result = "true" /\ Loaded /\ faults = 0)
    => Installed = {checksum.id}

\* C7 (as stated): a call that builds the release from the bundle never
\* requests the server checksum.
C7_BootstrapNeverRequests ==
    bootstrapped => ~Requested

\* C7 (amended): a call that finds no release builds it from the bundle and
\* persists the pointer with the bundle checksum's id and timestamp, then goes
\* on to the gate of the same call: it requests the server checksum exactly
\* when checkDelay has elapsed since the bundle's timestamp, and never when
\* the build failed.
C7_BootstrapThenGate ==
    bootstrapped
    => /\ pc = "gate" =>
            /\ version = SetCurrentRelease(BundleChecksum.id, BundleChecksum.timestamp)
            /\ fs[BundleChecksum.id].checksum = BundleChecksum
       /\ (Returned /\ failure # "bundle") => gateAt # -1
       /\ failure = "bundle" => gateAt = -1
       /\ gateAt = -1 => ~Requested
       /\ (gateAt # -1 /\ gateAt < BundleChecksum.timestamp + checkDelay)
             => ~Requested /\ failure = "gate"
       /\ (gateAt # -1 /\ gateAt >= BundleChecksum.timestamp + checkDelay)
             => Requested \/ pc = "getServerChecksum"

\* a call built the release from the bundle and went on to install a release
\* of the server
C7_Witness ==
    /\ Returned
    /\ bootstrapped
    /\ Requested
    /\ result = "true"

\* C8: in a call that loaded the pointer, if less than checkDelay has passed
\* since lastCheckedAt the call requests no server checksum, issues nothing
\* but the reads of the pointer and manifest, leaves pointer, releases and
\* WebView as they were and returns false; otherwise it goes on to the
\* request of the server checksum.
C8_Gate ==
    (Loaded /\ gateAt # -1)
    => IF gateAt - pre.version.updated < checkDelay
       THEN /\ ~Requested
            /\ failure = "gate"
            /\ \A i \in Indexes(ops) : ops[i].op = "readFile"
            /\ version = pre.version
            /\ ReleasesAsBefore
            /\ WebViewAsBefore
            /\ Returned => result = "false"
       ELSE Requested \/ pc = "getServerChecksum"

\* a call that loaded the pointer was stopped by the gate
C8_Witness ==
    /\ Returned
    /\ Loaded
    /\ failure = "gate"
    /\ checkDelay > 0
    /\ gateAt > pre.version.updated

\* C9: two requests of the server checksum are never less than the checkDelay
\* of the later call apart, whatever the outcome of the call that made the
\* earlier one.
C9_RequestsAreSpaced ==
    fetchedAt.prev # -1 => fetchedAt.last - fetchedAt.prev >= fetchedAt.delay

C11_Idempotent ==
    (/\ Returned
     /\ pre.same
     /\ SameRelease(activeRelease, checksum)
     /\ checksum.id = pre.version.id)
    => /\ pre.result = "false"
       /\ result = "false"
       /\ ~Issued("copy")
       /\ ~Issued("download")
       /\ ~Issued("rename")
       /\ Dirs(fs) = Dirs(pre.fs)
       /\ Loaded => ReleasesAsBefore

\* two calls in a row, the second later than the first and under a positive
\* checkDelay, found the installed release on the server
C11_Witness ==
    /\ Returned
    /\ pre.same
    /\ SameRelease(activeRelease, checksum)
    /\ checksum.id = pre.version.id
    /\ Loaded
    /\ checkDelay > 0
    /\ version.updated > pre.version.updated
\* the copies and downloads the call has issued, in the order of issue
IsTask(o) == o.op \in {"copy", "download"}
TaskOps == SelectSeq(ops, IsTask)

\* C12: once the loop over the server checksum's files has run, the call has
\* issued exactly one operation per file of the server checksum, in order: a
\* copy when the active release's checksum has an entry with the same path
\* and the same hash, a download otherwise; nothing is issued for a path
\* that only the active release lists, and nothing before the loop.
C12_OneOperationPerEntry ==
    /\ (pc = "awaitDownloads" \/ TaskOps # << >>)
       => /\ Len(TaskOps) = Len(checksum.files)
          /\ \A i \in Indexes(checksum.files) :
                LET file == checksum.files[i]
                    reuse == \E j \in Indexes(activeRelease.checksum.files) :
                                /\ activeRelease.checksum.files[j].path = file.path
                                /\ activeRelease.checksum.files[j].hash = file.hash
                IN TaskOps[i] = Op(IF reuse THEN "copy" ELSE "download", file.path)
    /\ pc \in {"getCurrentRelease", "bundleFetch", "bundleDirs", "bundleTasks",
               "bundleAwait", "bundleSetCurrent", "bundleCatch", "gate",
               "getServerChecksum", "alreadyInstalled", "prepare", "scaffold",
               "download"}
       => TaskOps = << >>

\* a batch of one copy (same path and hash) and one download (same path,
\* other hash) has completed
C12_Witness ==
    /\ pc = "rename"
    /\ Loaded
    /\ TaskOps = << Op("copy", "a.js"), Op("download", "d/b.js") >>
\* the aborted attempt's persisted state is one sync reaches from a fresh
\* install
AbortedStateReached ==
    pc = "idle" /\ fs = AbortedFs /\ version = AbortedVersion

\* C13: when sync is about to rename releases/next, the directory holds a
\* file only for the paths the server checksum lists, and holds the server
\* checksum as its manifest, also when the removal of a leftover
\* releases/next was rejected.
C13_StagingHoldsOnlyListedFiles ==
    pc = "rename"
    => /\ \A p \in Paths :
            fs[Staging].files[p] # None
            => \E i \in Indexes(checksum.files) : checksum.files[i].path = p
       /\ fs[Staging].checksum = checksum
\* the checksum lists a path twice
HasDuplicatePaths(cs) ==
    \E i, j \in Indexes(cs.files) : i # j /\ cs.files[i].path = cs.files[j].path

\* the operations the call issued after its request of the server checksum
RECURSIVE AfterRequest(_)
AfterRequest(s) ==
    IF s = << >> THEN << >>
    ELSE IF Head(s).op = "request" THEN Tail(s)
    ELSE AfterRequest(Tail(s))

\* C14: a call that fetched a server checksum listing a path twice issues no
\* operation for it (no mkdir, copy, download, checksum write or rename) and
\* returns false.
C14_DuplicatePathsRejected ==
    HasDuplicatePaths(checksum)
    => /\ AfterRequest(ops) = << >>
       /\ Returned => result = "false"
\* the call has gone past await Promise.all(downloadTasks): it has issued the
\* write of releases/next/checksum.json or a later operation
PastBarrier ==
    \E i \in Indexes(AfterRequest(ops)) :
       LET o == AfterRequest(ops)[i].op
       IN \/ o \in {"rename", "readdir", "getUri", "setServerBasePath",
                    "persistServerBasePath"}
          \/ o = "writeFile" /\ TaskOps # << >>

\* C15: while sync awaits the batch every copy and download of the server
\* checksum has been issued and nothing after the batch has; sync gets to the
\* rename only with a file in releases/next for every entry of the checksum;
\* and a call in which a task rejected issues no checksum write, rename,
\* readdir, getUri or WebView call.
C15_Barrier ==
    /\ pc = "awaitDownloads"
       => /\ Len(tasks) = Len(checksum.files)
          /\ Len(TaskOps) = Len(checksum.files)
          /\ Last(ops) = TaskOps[Len(TaskOps)]
          /\ ~PastBarrier
    /\ pc = "rename"
       => \A i \in Indexes(checksum.files) :
             fs[Staging].files[checksum.files[i].path] # None
    /\ failure = "downloadTasks"
       => /\ ~PastBarrier
          /\ Returned => result = "false"

\* a task rejected while another of the batch was still running, and the
\* call has returned
C15_Witness ==
    /\ Returned
    /\ failure = "downloadTasks"
    /\ stragglers # {}
\* C16: when a directory of the new release's name was there before the
\* call, the rename of releases/next is rejected: that directory keeps its
\* content, the call issues no readdir, rmdir of a release, getUri, pointer
\* write or WebView call after it, the WebView is as before, and the call
\* returns false.
C16_CommitCollision ==
    (Issued("rename") /\ pre.fs[checksum.id].exists)
    => /\ failure = "rename"
       /\ Last(ops) = Op("rename", checksum.id)
       /\ fs[checksum.id] = pre.fs[checksum.id]
       /\ WebViewAsBefore
       /\ Loaded => version = pre.version
       /\ Returned => result = "false"

\* a call found a directory of the new release's name, left by an earlier
\* call, and returned after the rename was rejected, no operation having
\* failed for another reason
C16_Witness ==
    /\ Returned
    /\ failure = "rename"
    /\ pre.fs[checksum.id].exists
    /\ fs[Staging].exists
    /\ faults = 0
\* C17: the directory of the bundle's release is there only as a completely
\* assembled tree: with its manifest and a file for every entry of it
\* (stated here for the runs in which no operation has failed).
C17_BundleReleaseAppearsComplete ==
    (fs[BundleChecksum.id].exists /\ faults = 0)
    => /\ fs[BundleChecksum.id].checksum = BundleChecksum
       /\ \A i \in Indexes(BundleChecksum.files) :
             fs[BundleChecksum.id].files[BundleChecksum.files[i].path] # None
\* C18: a call in which an rmdir of deleteOldReleases was rejected goes on to
\* activate the release and returns true (stated here for readdir results
\* that are plain names, so that the rmdir path is that of the directory).
C18_DeleteFailureSkipped ==
    (Returned /\ failure = "rmdir" /\ readdirShape = "string")
    => /\ result = "true"
       /\ Issued("getUri")
       /\ basePath = checksum.id
\* version.json or the checksum.json of the release it names was missing
\* when the call started
NothingToLoad ==
    \/ ~pre.version.exists
    \/ ~pre.fs[pre.version.id].exists
    \/ pre.fs[pre.version.id].checksum = NoChecksum

\* C19: once getCurrentRelease has returned, a call that found version.json
\* or the manifest of the release it names missing or unreadable is in
\* buildReleaseFromBundle or has run it, no error having been raised; a call
\* that did not go there runs on the release version.json named, with the
\* manifest stored in that release's directory.
C19_CorruptStateBootstraps ==
    (calls > 0 /\ native /\ pc # "getCurrentRelease")
    => /\ result # "error"
       /\ failure = None => pc # "catch"
       /\ NothingToLoad => (pc = "bundleFetch" \/ bootstrapped)
       /\ bootstrapped =>
            /\ ops[1] = Op("readFile", "version.json")
            /\ Issued("fetch")
       /\ (pc # "bundleFetch" /\ ~bootstrapped) =>
            /\ activeRelease.found
            /\ activeRelease.id = pre.version.id
            /\ activeRelease.updated = pre.version.updated
            /\ activeRelease.checksum = pre.fs[pre.version.id].checksum

\* a call found version.json naming a release whose directory was gone, and
\* built the release from the bundle
C19_Witness ==
    /\ Returned
    /\ bootstrapped
    /\ pre.version.exists
    /\ ~pre.fs[pre.version.id].exists
    /\ fs[BundleChecksum.id].checksum = BundleChecksum
\* the reads and the writes of version.json the call has issued
PointerReads == {i \in Indexes(ops) : ops[i] = Op("readFile", "version.json")}
PointerWrites == {i \in Indexes(ops) : ops[i] = Op("writeFile", "version.json")}

\* C20: a sync call reads version.json exactly once, as its first operation,
\* and writes it at most once; when it has written it, the write is the last
\* operation of the call (stated here for the runs in which no operation has
\* failed).
C20_PointerWrittenOnceAtEnd ==
    (calls > 0 /\ native /\ pc # "getCurrentRelease" /\ faults = 0)
    => /\ PointerReads = {1}
       /\ Cardinality(PointerWrites) <= 1
       /\ (Returned /\ PointerWrites # {}) => Len(ops) \in PointerWrites
\* C21: on a platform that is not native every sync call returns false at
\* once: it issues no operation (no read of version.json, no request, no file
\* system or WebView call) and leaves the release directories, the pointer
\* and the WebView as they were.
C21_NotNativeIsSkipped ==
    (calls > 0 /\ ~native)
    => /\ pc = "idle"
       /\ result = "false"
       /\ ops = << >>
       /\ fs = pre.fs
       /\ version = pre.version
       /\ WebViewAsBefore
       /\ ~bootstrapped
       /\ fetchedAt.last = -1

\* sync has been called twice, some time apart, on a platform that is not
\* native
C21_Witness ==
    /\ ~native
    /\ calls = MaxCalls
    /\ now > 0
    /\ result = "false"

\* an id that names a direct child of releases other than the staging name
SafeId(id) == id \in ReleaseIds

\* C22: a manifest whose id does not name a direct child of the releases
\* directory (here: an id equal to the staging name) is rejected before it is
\* used in a path: no operation is ever issued on releases/<id>, in particular
\* no rename onto it, and the call returns false.
C22_UnsafeIdRejected ==
    (checksum # NoChecksum /\ ~SafeId(checksum.id))
    => /\ \A i \in Indexes(ops) :
             ops[i].op \in {"rename", "getUri", "setServerBasePath"}
             => ops[i].arg # checksum.id
       /\ Returned => result = "false"


\* C23: release immutability: no step of any sync call changes a file inside
\* a committed release directory; the only change a committed releases/<id>
\* undergoes is the deletion of the whole directory.
C23_CommittedReleaseImmutable ==
    [][\A d \in ReleaseIds :
          Committed(fs, d) => (fs'[d] = fs[d] \/ fs'[d] = NoDir)]_vars

\* the call has had its manifest request or its batch of file fetches fail
FetchFailure == failure \in {"getServerChecksum", "downloadTasks"}

C25_SyncTerminates ==
    (pc # "idle") ~> (pc = "idle" /\ result \in {"true", "false"})

\* a second call has run to its last step and returned true after a first
\* call that returned false
C25_Witness ==
    /\ Returned
    /\ calls = MaxCalls
    /\ pre.result = "false"
    /\ result = "true"
    /\ Issued("persistServerBasePath")

\* every file the directory's checksum.json lists is there with that hash
MatchesManifest(dir) ==
    \A i \in Indexes(dir.checksum.files) :
       dir.files[dir.checksum.files[i].path] = dir.checksum.files[i].hash

\* the directory holds, under a path of its manifest, a file of another
\* manifest
HoldsForeignFile(dir) ==
    \E i \in Indexes(dir.checksum.files) :
       dir.files[dir.checksum.files[i].path]
          \notin {None, dir.checksum.files[i].hash}

\* C26: overlapping sync calls are unprotected: nothing keeps a second call
\* from starting while a first one assembles releases/next, whereas as long
\* as no second call has started every committed release matches its
\* manifest; with the overlap (witness) a committed release holds a file that
\* does not match its manifest.
C26_OverlapUnprotected ==
    /\ (/\ Assembling
        /\ other.pc = "off"
        /\ stragglers = {}
        /\ version.exists
        /\ Committed(fs, version.id)) => ENABLED OtherStart
    /\ other.pc = "off"
       => \A d \in ReleaseIds : Committed(fs, d) => MatchesManifest(fs[d])

\* the first call has committed releases/v1 while the second call, started
\* during the first, was writing its own files to releases/next
C26_Witness ==
    /\ other.pc # "off"
    /\ checksum # NoChecksum
    /\ Committed(fs, checksum.id)
    /\ HoldsForeignFile(fs[checksum.id])
    /\ Issued("rename")
    /\ failure = None

\* deleteOldReleases removes a release directory in this step
CollectsRelease ==
    /\ pc = "deleteOldReleases"
    /\ \E d \in ReleaseIds : fs[d].exists /\ ~fs'[d].exists

\* C27: whenever deleteOldReleases deletes a release directory, the new
\* release is committed, the persisted pointer already names it and the WebView
\* has already been pointed at it (stated here for the runs in which no
\* operation has failed).
C27_CollectAfterActivation ==
    [][(CollectsRelease /\ faults' = 0)
       => /\ version.exists
          /\ version.id = checksum.id
          /\ basePath = checksum.id]_vars

\* the call has received a server checksum that names another release than
\* the installed one
Updating == checksum # NoChecksum /\ ~SameRelease(activeRelease, checksum)

\* C28: the rename is the single linearization point of a remote update:
\* until the call has issued the rename, releases/<newId> is as it was when the
\* call started, and once it has, releases/<newId>, if it exists, holds the new
\* checksum.json and every file it lists; it never holds part of the release.
C28_CommitIsLinearizationPoint ==
    Updating
    => IF ~Issued("rename")
       THEN fs[checksum.id] = pre.fs[checksum.id]
       ELSE fs[checksum.id].exists
            => /\ fs[checksum.id].checksum = checksum
               /\ MatchesManifest(fs[checksum.id])

\* the positions in the call's log of the mkdir operations under releases/next
\* and of the copy and download operations
StagingMkdirs ==
    {i \in Indexes(ops) : ops[i].op = "mkdir" /\ ops[i].arg # "releases"
                             /\ ops[i].arg[1] = Staging}
TaskStarts == {i \in Indexes(ops) : IsTask(ops[i])}

\* C29: staging scaffolding precedes file operations: once the copies and
\* downloads of a batch have started, the directories created under
\* releases/next are exactly the distinct parent paths of the manifest's files,
\* each was created before the first copy or download started, and every copy
\* or download targets a directory that exists.
C29_ScaffoldBeforeFiles ==
    pc = "awaitDownloads"
    => /\ {ops[i].arg[2] : i \in StagingMkdirs}
             = {ParentOf(checksum.files[i].path) : i \in Indexes(checksum.files)}
       /\ \A i \in StagingMkdirs : \A j \in TaskStarts : i < j
       /\ \A i \in Indexes(checksum.files) :
             HasParent(fs[Staging], checksum.files[i].path)

\* C30: a failed batch discards staging: once a call whose batch of copies and
\* downloads was rejected has returned false, no directory releases/next is
\* left on disk (stated here for a batch over an active release that is
\* complete).
C30_FailedBatchDiscardsStaging ==
    (/\ Returned
     /\ result = "false"
     /\ failure = "downloadTasks"
     /\ MatchesManifest(fs[activeRelease.id]))
    => ~fs[Staging].exists

\* C31: an empty file set is a valid release: a call that receives a manifest
\* with a new id and no files issues no copy and no download and, when no
\* operation fails, returns true with releases/<id> committed and holding only
\* the manifest, the superseded releases deleted, and the pointer and the
\* WebView on the new release.
C31_EmptyReleaseInstalled ==
    (checksum = EmptyChecksum /\ Updating)
    => /\ TaskOps = << >>
       /\ (Returned /\ faults = 0)
          => /\ result = "true"
             /\ Committed(fs, checksum.id)
             /\ fs[checksum.id].checksum = checksum
             /\ \A p \in Paths : fs[checksum.id].files[p] = None
             /\ Installed = {checksum.id}
             /\ version.exists
             /\ version.id = checksum.id
             /\ basePath = checksum.id

\* buildReleaseFromBundle persists the pointer in this step
BootstrapPersists == pc = "bundleSetCurrent" /\ activeRelease'.found

\* C32: whenever the bootstrap persists the pointer for the bundle's release,
\* every file the bundle's manifest lists is present in releases/<id>: a file
\* that could not be fetched or written makes the bootstrap fail.
C32_BootstrapComplete ==
    [][BootstrapPersists
       => \A i \in Indexes(BundleChecksum.files) :
             fs[BundleChecksum.id].files[BundleChecksum.files[i].path] # None]_vars

\* no operation of the call was made to fail: what failed could not complete
NoInjectedFailure == faults = pre.faults

\* C33: recovery after failure: a call that follows a call that returned
\* false, passes the gate, receives a manifest naming another release than the
\* pointer's and has none of its operations made to fail, activates that
\* release and returns true (stated here for readdir results that are plain
\* names, with which deleteOldReleases does not reject, and for a pointer
\* that names a complete release when the call starts).
C33_RecoversAfterFailure ==
    (/\ Returned
     /\ calls > 1
     /\ pre.result = "false"
     /\ readdirShape = "string"
     /\ pre.version.exists
     /\ MatchesManifest(pre.fs[pre.version.id])
     /\ pre.fs[pre.version.id].checksum # NoChecksum
     /\ Requested
     /\ Updating
     /\ NoInjectedFailure)
    => /\ result = "true"
       /\ version.exists
       /\ version.id = checksum.id
       /\ basePath = checksum.id
====
